---- MODULE Spec2Model ----
(***************************************************************************)
(* A model of bigquerypipeline/pipelines.py: the BigQueryPipeline item     *)
(* pipeline (process_item, close_spider, table_id, ensure_table_created,   *)
(* flush_items) together with the outcomes of the BigQuery client calls    *)
(* it issues (get_table, create_table, insert_rows_json).                  *)
(*                                                                         *)
(* Python values are records tagged by their type in field k.  A dict is   *)
(* a function from its keys to values; the item cache, whose iteration     *)
(* order flush_items depends on, is a sequence in insertion order.         *)
(***************************************************************************)
EXTENDS Integers, Sequences, FiniteSets, TLC

\* The number of calls (process_item or close_spider) made on one pipeline.
MaxCalls == 3

\* The same, where the spiders and the items are drawn from the larger sets.
MaxItemCalls == 1

-----------------------------------------------------------------------------
(* Python values *)

NoneV == [k |-> "None"]
Str(s) == [k |-> "str", v |-> s]
Num(n) == [k |-> "int", v |-> n]
Date(y, m, d) == [k |-> "date", y |-> y, m |-> m, d |-> d]
DateTime(y, m, d, hh, mm, ss) ==
    [k |-> "datetime", y |-> y, m |-> m, d |-> d, hh |-> hh, mm |-> mm, ss |-> ss]
Dict(f) == [k |-> "dict", v |-> f]
List(s) == [k |-> "list", v |-> s]

EmptyDict == [key \in {} |-> NoneV]

\* del d[key]
Del(d, key) == [x \in (DOMAIN d) \ {key} |-> d[x]]

\* d[key] = value
Put(d, key, value) == [x \in (DOMAIN d) \cup {key} |-> IF x = key THEN value ELSE d[x]]

\* bool(value) for the kinds of value a setting takes
Truthy(value) ==
    CASE value.k = "None" -> FALSE
      [] value.k = "bool" -> value.v
      [] value.k = "int" -> value.v # 0
      [] value.k = "str" -> value.v # ""
      [] value.k = "set" -> value.v # {}
      [] OTHER -> TRUE

Bool(b) == [k |-> "bool", v |-> b]
SetV(s) == [k |-> "set", v |-> s]

Pad2(n) == IF n < 10 THEN "0" \o ToString(n) ELSE ToString(n)

\* value.strftime("%Y-%m-%d"), of a date or of a datetime (a subclass of date)
strftime(value) == ToString(value.y) \o "-" \o Pad2(value.m) \o "-" \o Pad2(value.d)

\* str(value) of a datetime
str_datetime(value) ==
    strftime(value) \o " " \o Pad2(value.hh) \o ":" \o Pad2(value.mm) \o ":" \o Pad2(value.ss)

\* The text an f-string puts for a value
Format(value) ==
    CASE value.k = "str" -> value.v
      [] value.k = "int" -> ToString(value.v)
      [] value.k = "None" -> "None"
      [] value.k = "date" -> strftime(value)
      [] value.k = "datetime" -> str_datetime(value)
      [] OTHER -> "?"

-----------------------------------------------------------------------------
(* The class attributes and what __init__ sets *)

bigquery_dataset_key == "BIGQUERY_DATASET"
bigquery_table_key == "BIGQUERY_TABLE"

project_id == "p"
session_id == "uuid4"

-----------------------------------------------------------------------------
(* The spider: its name and its settings.  settings is a function from the *)
(* names that are set to their values.  getitem says what settings[name]   *)
(* does for a name that is not set: a scrapy Settings object returns None, *)
(* a plain mapping raises KeyError.                                         *)

settings_get(spider, name, default) ==
    IF name \in DOMAIN spider.settings THEN spider.settings[name] ELSE default

settings_getitem(spider, name) ==
    IF name \in DOMAIN spider.settings
    THEN [raised |-> FALSE, value |-> spider.settings[name]]
    ELSE IF spider.getitem = "KeyError"
         THEN [raised |-> TRUE, value |-> NoneV]
         ELSE [raised |-> FALSE, value |-> NoneV]

-----------------------------------------------------------------------------
(* table_id *)

\* A variant that leaves the key in the item
extract_and_delete_kept(item, spider, key) ==
    IF key \in DOMAIN item
    THEN [raised |-> FALSE, value |-> item[key], item |-> item]
    ELSE LET s == settings_getitem(spider, key)
         IN  [raised |-> s.raised, value |-> s.value, item |-> item]

\* A variant that takes the setting when it is set and the item's value otherwise
extract_and_delete_setting_first(item, spider, key) ==
    IF key \in DOMAIN item /\ key \notin DOMAIN spider.settings
    THEN [raised |-> FALSE, value |-> item[key], item |-> Del(item, key)]
    ELSE LET s == settings_getitem(spider, key)
         IN  [raised |-> s.raised, value |-> s.value,
              item |-> IF key \in DOMAIN item THEN Del(item, key) ELSE item]

extract_and_delete(item, spider, key) ==
    IF key \in DOMAIN item
    THEN [raised |-> FALSE, value |-> item[key], item |-> Del(item, key)]
    ELSE LET s == settings_getitem(spider, key)
         IN  [raised |-> s.raised, value |-> s.value, item |-> item]

\* The three optional fields table_id stamps onto the item
add_scraped_time(item, spider, now) ==
    IF Truthy(settings_get(spider, "BIGQUERY_ADD_SCRAPED_TIME", Bool(FALSE)))
    THEN Put(item, "scraped_time", now)
    ELSE item

add_scraper_name(item, spider) ==
    IF Truthy(settings_get(spider, "BIGQUERY_ADD_SCRAPER_NAME", Bool(FALSE)))
    THEN Put(item, "scraper", Str(spider.name))
    ELSE item

add_scraper_session(item, spider) ==
    IF Truthy(settings_get(spider, "BIGQUERY_ADD_SCRAPER_SESSION", Bool(FALSE)))
    THEN Put(item, "scraper_session_id", Str(session_id))
    ELSE item

\* for key in item: a datetime value becomes str(value)
stringify_datetimes(item) ==
    [key \in DOMAIN item |->
        IF item[key].k = "datetime" THEN Str(str_datetime(item[key])) ELSE item[key]]

table_id(item, spider, now) ==
    LET dataset == extract_and_delete(item, spider, bigquery_dataset_key)
        table == extract_and_delete(dataset.item, spider, bigquery_table_key)
        stamped == add_scraper_session(
                       add_scraper_name(
                           add_scraped_time(table.item, spider, now), spider), spider)
    IN  IF dataset.raised \/ table.raised
        THEN [raised |-> TRUE, table_id |-> "", item |-> EmptyDict]
        ELSE [raised |-> FALSE,
              table_id |-> project_id \o "." \o Format(dataset.value)
                                      \o "." \o Format(table.value),
              item |-> stringify_datetimes(stamped)]

-----------------------------------------------------------------------------
(* The calls to the BigQuery client.  A call is recorded with its outcome: *)
(* get_table finds the table, raises NotFound or raises another error;     *)
(* create_table succeeds, raises Conflict (the table was created between   *)
(* the get_table and the create_table) or raises another error;            *)
(* insert_rows_json returns no errors, returns row errors, or raises.      *)

GetOutcomes == {"found", "NotFound", "error"}
CreateOutcomes == {"ok", "Conflict", "error"}
InsertOutcomes == {"ok", "row_errors", "error"}

Call(name, tid, rows, outcome) ==
    [call |-> name, table_id |-> tid, rows |-> rows, outcome |-> outcome]

-----------------------------------------------------------------------------
(* ensure_table_created *)

\* A variant that does not add a table that get_table found to tables_created
ensure_table_created_unrecorded(created, tid, item, get, create) ==
    IF tid \in created
    THEN [result |-> "ok", tables_created |-> created, calls |-> <<>>]
    ELSE LET g == <<Call("get_table", tid, <<>>, get)>>
             c == g \o <<Call("deduce_schema", tid, <<>>, "ok"),
                         Call("create_table", tid, <<>>, create)>>
         IN  CASE get = "found" ->
                    [result |-> "ok", tables_created |-> created, calls |-> g]
               [] get = "NotFound" /\ create = "ok" ->
                    [result |-> "ok", tables_created |-> created \cup {tid}, calls |-> c]
               [] get = "NotFound" /\ create # "ok" ->
                    [result |-> create, tables_created |-> created, calls |-> c]
               [] OTHER ->
                    [result |-> "error", tables_created |-> created, calls |-> g]

\* A variant that does not look the table id up in tables_created
ensure_table_created_rechecked(created, tid, item, get, create) ==
    LET g == <<Call("get_table", tid, <<>>, get)>>
        c == g \o <<Call("deduce_schema", tid, <<>>, "ok"),
                    Call("create_table", tid, <<>>, create)>>
    IN  CASE get = "found" ->
               [result |-> "ok", tables_created |-> created \cup {tid}, calls |-> g]
          [] get = "NotFound" /\ create = "ok" ->
               [result |-> "ok", tables_created |-> created \cup {tid}, calls |-> c]
          [] get = "NotFound" /\ create # "ok" ->
               [result |-> create, tables_created |-> created, calls |-> c]
          [] OTHER ->
               [result |-> "error", tables_created |-> created, calls |-> g]

\* A variant that creates the table whether get_table found it or not
ensure_table_created_always(created, tid, item, get, create) ==
    IF tid \in created
    THEN [result |-> "ok", tables_created |-> created, calls |-> <<>>]
    ELSE LET g == <<Call("get_table", tid, <<>>, get)>>
             c == g \o <<Call("deduce_schema", tid, <<>>, "ok"),
                         Call("create_table", tid, <<>>, create)>>
         IN  CASE get \in {"found", "NotFound"} /\ create = "ok" ->
                    [result |-> "ok", tables_created |-> created \cup {tid}, calls |-> c]
               [] get \in {"found", "NotFound"} /\ create # "ok" ->
                    [result |-> create, tables_created |-> created, calls |-> c]
               [] OTHER ->
                    [result |-> "error", tables_created |-> created, calls |-> g]

\* A variant that catches what create_table raises and goes on
ensure_table_created_swallowed(created, tid, item, get, create) ==
    IF tid \in created
    THEN [result |-> "ok", tables_created |-> created, calls |-> <<>>]
    ELSE LET g == <<Call("get_table", tid, <<>>, get)>>
             c == g \o <<Call("deduce_schema", tid, <<>>, "ok"),
                         Call("create_table", tid, <<>>, create)>>
         IN  CASE get = "found" ->
                    [result |-> "ok", tables_created |-> created \cup {tid}, calls |-> g]
               [] get = "NotFound" ->
                    [result |-> "ok", tables_created |-> created \cup {tid}, calls |-> c]
               [] OTHER ->
                    [result |-> "error", tables_created |-> created, calls |-> g]

\* A variant that returns when create_table raises, the table id not added
ensure_table_created_unadded(created, tid, item, get, create) ==
    IF tid \in created
    THEN [result |-> "ok", tables_created |-> created, calls |-> <<>>]
    ELSE LET g == <<Call("get_table", tid, <<>>, get)>>
             c == g \o <<Call("deduce_schema", tid, <<>>, "ok"),
                         Call("create_table", tid, <<>>, create)>>
         IN  CASE get = "found" ->
                    [result |-> "ok", tables_created |-> created \cup {tid}, calls |-> g]
               [] get = "NotFound" /\ create = "ok" ->
                    [result |-> "ok", tables_created |-> created \cup {tid}, calls |-> c]
               [] get = "NotFound" /\ create # "ok" ->
                    [result |-> "ok", tables_created |-> created, calls |-> c]
               [] OTHER ->
                    [result |-> "error", tables_created |-> created, calls |-> g]

ensure_table_created(created, tid, item, get, create) ==
    IF tid \in created
    THEN [result |-> "ok", tables_created |-> created, calls |-> <<>>]
    ELSE LET g == <<Call("get_table", tid, <<>>, get)>>
             c == g \o <<Call("deduce_schema", tid, <<>>, "ok"),
                         Call("create_table", tid, <<>>, create)>>
         IN  CASE get = "found" ->
                    [result |-> "ok", tables_created |-> created \cup {tid}, calls |-> g]
               [] get = "NotFound" /\ create = "ok" ->
                    [result |-> "ok", tables_created |-> created \cup {tid}, calls |-> c]
               [] get = "NotFound" /\ create # "ok" ->
                    [result |-> create, tables_created |-> created, calls |-> c]
               [] OTHER ->
                    [result |-> "error", tables_created |-> created, calls |-> g]

-----------------------------------------------------------------------------
(* flush_items.  cache is the item cache, a sequence of                    *)
(* [table_id, items] in the order the keys were inserted; outs[i] is the   *)
(* outcome of insert_rows_json for the i-th key, should it be called.      *)

\* The outcome of the insert_rows_json call made for the i-th key
OutcomeAt(outs, i) == IF i \in DOMAIN outs THEN outs[i] ELSE "ok"

\* A variant that flushes only a cache longer than BIGQUERY_ITEM_BATCH
flush_due_longer(items, spider, force) ==
    Len(items) > settings_get(spider, "BIGQUERY_ITEM_BATCH", Num(1)).v \/ force

\* A variant that does not look at force
flush_due_unforced(items, spider, force) ==
    Len(items) >= settings_get(spider, "BIGQUERY_ITEM_BATCH", Num(1)).v

\* len(items) >= spider.settings.get("BIGQUERY_ITEM_BATCH", 1) or force
flush_due(items, spider, force) ==
    Len(items) >= settings_get(spider, "BIGQUERY_ITEM_BATCH", Num(1)).v \/ force

\* A variant that keeps the items when insert_rows_json returned errors
clear_items_unless_errors(cache, i, out) ==
    IF out = "row_errors" THEN cache ELSE [cache EXCEPT ![i].items = <<>>]

\* self.item_cache[table_id] = [], after insert_rows_json returned out
clear_items(cache, i, out) == [cache EXCEPT ![i].items = <<>>]

\* A variant that skips no key
no_items_unskipped(items) == FALSE

\* if not items: continue
no_items(items) == items = <<>>

RECURSIVE flush_from(_, _, _, _, _)
flush_from(cache, i, spider, force, outs) ==
    IF i > Len(cache)
    THEN [result |-> "ok", item_cache |-> cache, calls |-> <<>>]
    ELSE LET items == cache[i].items
         IN  IF no_items(items)
             THEN flush_from(cache, i + 1, spider, force, outs)
             ELSE IF flush_due(items, spider, force)
             THEN LET out == OutcomeAt(outs, i)
                      call == Call("insert_rows_json", cache[i].table_id, items, out)
                  IN  IF out = "error"
                      THEN [result |-> "error", item_cache |-> cache, calls |-> <<call>>]
                      ELSE LET rest == flush_from(clear_items(cache, i, out),
                                                  i + 1, spider, force, outs)
                           IN  [rest EXCEPT !.calls = <<call>> \o @]
             ELSE flush_from(cache, i + 1, spider, force, outs)

flush_items(cache, spider, force, outs) == flush_from(cache, 1, spider, force, outs)

-----------------------------------------------------------------------------
(* process_item *)

RECURSIVE serialise_value(_)
serialise_value(value) ==
    IF value.k \in {"date", "datetime"}
    THEN Str(strftime(value))
    ELSE IF value.k = "dict"
         THEN Dict([key \in DOMAIN value.v |-> serialise_value(value.v[key])])
         ELSE value

\* A variant that sets the fields that are not to be saved to None
project_fields_nulled(item, spider) ==
    LET fields_to_save == settings_get(spider, "BIGQUERY_FIELDS_TO_SAVE", NoneV)
    IN  IF Truthy(fields_to_save)
        THEN [key \in DOMAIN item |-> IF key \in fields_to_save.v THEN item[key] ELSE NoneV]
        ELSE item

\* {key: item[key] for key in item if key in fields_to_save}, when fields_to_save
project_fields(item, spider) ==
    LET fields_to_save == settings_get(spider, "BIGQUERY_FIELDS_TO_SAVE", NoneV)
    IN  IF Truthy(fields_to_save)
        THEN [key \in {x \in DOMAIN item : x \in fields_to_save.v} |-> item[key]]
        ELSE item

CacheKeys(cache) == {cache[i].table_id : i \in 1..Len(cache)}

CacheItems(cache, tid) ==
    IF tid \in CacheKeys(cache)
    THEN cache[CHOOSE i \in 1..Len(cache) : cache[i].table_id = tid].items
    ELSE <<>>

\* A variant that puts the item first in the list
cache_append_first(cache, tid, row) ==
    LET c == IF tid \in CacheKeys(cache)
             THEN cache
             ELSE Append(cache, [table_id |-> tid, items |-> <<>>])
    IN  [i \in 1..Len(c) |->
            IF c[i].table_id = tid
            THEN [c[i] EXCEPT !.items = <<row>> \o @]
            ELSE c[i]]

\* if table_id not in self.item_cache: ... = []; self.item_cache[table_id].append(item)
cache_append(cache, tid, row) ==
    LET c == IF tid \in CacheKeys(cache)
             THEN cache
             ELSE Append(cache, [table_id |-> tid, items |-> <<>>])
    IN  [i \in 1..Len(c) |->
            IF c[i].table_id = tid
            THEN [c[i] EXCEPT !.items = Append(@, row)]
            ELSE c[i]]

\* One call of process_item on the pipeline state (created, cache).  A row
\* of the cache is the item with the identity (id) of the call that made it.
process_item_run(created, cache, spider, item, id, now, get, create, outs) ==
    LET t == table_id(item, spider, now)
        e == ensure_table_created(created, t.table_id, t.item, get, create)
        stored == serialise_value(Dict(project_fields(t.item, spider))).v
        cache1 == cache_append(cache, t.table_id, [id |-> id, item |-> stored])
        f == flush_items(cache1, spider, FALSE, outs)
    IN  IF t.raised
        THEN [result |-> "KeyError", ret |-> NoneV, table_id |-> "",
              tables_created |-> created, item_cache |-> cache, calls |-> <<>>]
        ELSE IF e.result # "ok"
        THEN [result |-> e.result, ret |-> NoneV, table_id |-> t.table_id,
              tables_created |-> created, item_cache |-> cache, calls |-> e.calls]
        ELSE [result |-> f.result,
              ret |-> IF f.result = "ok" THEN Dict(stored) ELSE NoneV,
              table_id |-> t.table_id,
              tables_created |-> e.tables_created,
              item_cache |-> f.item_cache,
              calls |-> e.calls \o f.calls]

-----------------------------------------------------------------------------
(* The inputs: the spiders a pipeline runs under and the items it is given *)

Setting(name, value) == name :> value

BothDefaults == Setting(bigquery_dataset_key, Str("d")) @@ Setting(bigquery_table_key, Str("t"))

SpiderOf(settings, getitem) == [name |-> "crawler", settings |-> settings, getitem |-> getitem]

\* Spiders that differ in BIGQUERY_ITEM_BATCH (not set: 1)
RunSpiders ==
    { SpiderOf(BothDefaults, "None"),
      SpiderOf(BothDefaults @@ Setting("BIGQUERY_ITEM_BATCH", Num(2)), "None"),
      SpiderOf(BothDefaults @@ Setting("BIGQUERY_ITEM_BATCH", Num(3)), "None") }

\* Items for two tables: p.d.t by the two defaults, p.e.t by the item's dataset
\* and the default table, p.d.t by the default dataset and the item's table
RunItems ==
    { Setting("n", Num(3)),
      Setting(bigquery_dataset_key, Str("e")) @@ Setting("n", Num(3)),
      Setting(bigquery_table_key, Str("t")) @@ Setting("n", Num(4)) }

\* Spiders that differ in one group of settings each: the two defaults and what
\* settings[name] does when one is not set, the fields to save, the stamps.
NoTable == Setting(bigquery_dataset_key, Str("d"))
NoDataset == Setting(bigquery_table_key, Str("t"))
FieldsToSave(fields) == Setting("BIGQUERY_FIELDS_TO_SAVE", fields)
Stamp(name) == Setting(name, Bool(TRUE))

Spiders ==
    RunSpiders
    \cup {SpiderOf(s, g) : s \in {NoTable, NoDataset, EmptyDict}, g \in {"None", "KeyError"}}
    \cup {SpiderOf(BothDefaults @@ FieldsToSave(f), "None") :
            f \in {NoneV, SetV({}), SetV({"n"}),
                   SetV({"x", "scraper", "missing", bigquery_dataset_key})}}
    \cup {SpiderOf(BothDefaults @@ st @@ FieldsToSave(f), "None") :
            st \in {Stamp("BIGQUERY_ADD_SCRAPED_TIME"), Stamp("BIGQUERY_ADD_SCRAPER_NAME"),
                    Stamp("BIGQUERY_ADD_SCRAPER_SESSION"),
                    Setting("BIGQUERY_ADD_SCRAPER_NAME", Bool(FALSE))},
            f \in {NoneV, SetV({"n", "scraper", "scraped_time"})}}

Routings ==
    { EmptyDict,
      Setting(bigquery_dataset_key, Str("e")),
      Setting(bigquery_table_key, Str("u")),
      Setting(bigquery_dataset_key, Str("d")) @@ Setting(bigquery_table_key, Str("t")),
      Setting(bigquery_dataset_key, Str("d.t")) @@ Setting(bigquery_table_key, Num(7)) }

Nested ==
    Dict(Setting("on", Date(2024, 1, 5))
         @@ Setting("at", DateTime(2024, 1, 5, 9, 30, 0))
         @@ Setting("days", List(<<Date(2024, 1, 5)>>))
         @@ Setting("deep", Dict(Setting("on", Date(2023, 12, 31)))))

Payloads ==
    { Setting("n", Num(3)) @@ Setting("x", Num(5)),
      Setting("n", Num(3)) @@ Setting("ts", Date(2024, 1, 5)),
      Setting("n", Nested) @@ Setting("ts", DateTime(2024, 11, 12, 9, 30, 0))
          @@ Setting("x", List(<<Date(2024, 1, 5), Num(1)>>))
          @@ Setting("scraper", Str("mine")) }

Items == {r @@ p : r \in Routings, p \in Payloads}

\* datetime.datetime.now()
Now == DateTime(2025, 3, 4, 10, 0, 7)

-----------------------------------------------------------------------------
(* The state *)

VARIABLES
    spider,          \* the spider every call is given
    tables_created,  \* self.tables_created
    item_cache,      \* self.item_cache
    log,             \* the calls to the client so far, in order
    closed,          \* close_spider has been called
    ncalls,          \* the number of calls so far
    returned,        \* the items process_item has returned, with their table ids, in order
    last             \* the last call: its input, its result and the state before it

vars == <<spider, tables_created, item_cache, log, closed, ncalls, returned, last>>

NoCall ==
    [op |-> "none", closed |-> FALSE, item |-> NoneV, table_id |-> "", result |-> "ok",
     ret |-> NoneV, start |-> 0, cache0 |-> <<>>, created0 |-> {}]

InitOf(spiders) ==
    /\ spider \in spiders
    /\ tables_created = {}
    /\ item_cache = <<>>
    /\ log = <<>>
    /\ closed = FALSE
    /\ ncalls = 0
    /\ returned = <<>>
    /\ last = NoCall

Init == InitOf(RunSpiders)

\* The outcomes of get_table and create_table, for the calls that are made:
\* none for a table in tables_created, no create_table unless NotFound.
ProvisionOutcomes(created, t) ==
    IF t.raised \/ t.table_id \in created
    THEN {<<"found", "ok">>}
    ELSE {<<"found", "ok">>, <<"error", "ok">>}
         \cup {<<"NotFound", create>> : create \in CreateOutcomes}

\* The outcomes of the insert_rows_json calls a flush of cache can make: one
\* for each key with items, and none after a call that raises.
FlushOutcomes(cache) ==
    LET keys == {i \in 1..Len(cache) : cache[i].items # <<>>}
    IN  {outs \in [keys -> InsertOutcomes] :
            \A i, j \in keys : i < j /\ outs[i] = "error" => outs[j] = "ok"}

process_item_of(items, limit) ==
    /\ ncalls < limit
    /\ \E item \in items :
        \E p \in ProvisionOutcomes(tables_created, table_id(item, spider, Now)) :
        \E outs \in FlushOutcomes(
                    cache_append(item_cache, table_id(item, spider, Now).table_id, NoneV)) :
          LET r == process_item_run(tables_created, item_cache, spider, item,
                                    ncalls + 1, Now, p[1], p[2], outs)
          IN  /\ tables_created' = r.tables_created
              /\ item_cache' = r.item_cache
              /\ log' = log \o r.calls
              /\ returned' = IF r.result = "ok"
                             THEN Append(returned, [table_id |-> r.table_id,
                                                    row |-> [id |-> ncalls + 1, item |-> r.ret.v]])
                             ELSE returned
              /\ last' = [op |-> "process_item", closed |-> closed, item |-> Dict(item),
                          table_id |-> r.table_id, result |-> r.result, ret |-> r.ret,
                          start |-> Len(log), cache0 |-> item_cache,
                          created0 |-> tables_created]
    /\ ncalls' = ncalls + 1
    /\ UNCHANGED <<spider, closed>>

close_spider_of(limit) ==
    /\ ncalls < limit
    /\ \E outs \in FlushOutcomes(item_cache) :
          LET f == flush_items(item_cache, spider, TRUE, outs)
          IN  /\ item_cache' = f.item_cache
              /\ log' = log \o f.calls
              /\ last' = [op |-> "close_spider", closed |-> closed, item |-> NoneV,
                          table_id |-> "", result |-> f.result, ret |-> NoneV,
                          start |-> Len(log), cache0 |-> item_cache,
                          created0 |-> tables_created]
    /\ closed' = TRUE
    /\ ncalls' = ncalls + 1
    /\ UNCHANGED <<spider, tables_created, returned>>

process_item == process_item_of(RunItems, MaxCalls)

close_spider == close_spider_of(MaxCalls)

Next == process_item \/ close_spider

Spec == Init /\ [][Next]_vars

\* The same pipeline under every spider of Spiders and given the items of Items
InitItems == InitOf(Spiders)

process_any_item == process_item_of(Items, MaxItemCalls)

close_spider_early == close_spider_of(MaxItemCalls)

NextItems == process_any_item \/ close_spider_early

SpecItems == InitItems /\ [][NextItems]_vars

-----------------------------------------------------------------------------
(* What the claims are stated over *)

\* The calls to the client made by the last call of the pipeline
LastCalls == SubSeq(log, last.start + 1, Len(log))

CallsOf(calls, name) == SelectSeq(calls, LAMBDA c : c.call = name)

CallsFor(calls, name, tid) == SelectSeq(calls, LAMBDA c : c.call = name /\ c.table_id = tid)

\* A get_table or create_table call that raised an error (NotFound is the
\* answer of get_table, not an error of it)
Failed(c) ==
    \/ c.call = "get_table" /\ c.outcome = "error"
    \/ c.call = "create_table" /\ c.outcome # "ok"

FailedFor(calls, name, tid) ==
    SelectSeq(calls, LAMBDA c : c.call = name /\ c.table_id = tid /\ Failed(c))

\* The table ids the pipeline has had to do with
TableIds == {log[i].table_id : i \in 1..Len(log)} \cup CacheKeys(item_cache) \cup tables_created

Ids(rows) == {rows[i].id : i \in 1..Len(rows)}

Threshold == settings_get(spider, "BIGQUERY_ITEM_BATCH", Num(1)).v

-----------------------------------------------------------------------------
(* C1 *)

\* C1 as stated: for each table id the log holds at most one get_table call and
\* at most one create_table call, whatever the outcomes of the client calls.
C1_AtMostOneCheckAndCreate ==
    \A tid \in TableIds :
        /\ Len(CallsFor(log, "get_table", tid)) <= 1
        /\ Len(CallsFor(log, "create_table", tid)) <= 1

\* C1 as amended: for each table id, not counting the process_item calls whose
\* get_table or create_table call for the id raised an error, there is at most
\* one get_table call and at most one create_table call: every call beyond the
\* first is matched by a provisioning of the id that failed before it.
C1_AtMostOneUnfailedCheckAndCreate ==
    \A tid \in TableIds :
        /\ Len(CallsFor(log, "get_table", tid))
               <= 1 + Len(FailedFor(log, "get_table", tid))
                    + Len(FailedFor(log, "create_table", tid))
        /\ Len(CallsFor(log, "create_table", tid))
               <= 1 + Len(FailedFor(log, "create_table", tid))

\* A table was provisioned at the second attempt, after a first one failed, and
\* an item was then processed for it without a further call.
C1_Witness ==
    /\ last.op = "process_item"
    /\ last.result = "ok"
    /\ last.table_id \in last.created0
    /\ Len(FailedFor(log, "create_table", last.table_id)) = 1
    /\ Len(CallsFor(log, "get_table", last.table_id)) = 2
    /\ Len(CallsFor(log, "create_table", last.table_id)) = 2
    /\ CallsOf(LastCalls, "get_table") = <<>>

-----------------------------------------------------------------------------
(* C2 *)

\* The row the last process_item call made of its item
LastRow == [id |-> ncalls, item |-> last.ret.v]

\* C2: a process_item call that returns, for table tid whose cache held k items:
\* if k + 1 is below BIGQUERY_ITEM_BATCH (not set: 1) it makes no
\* insert_rows_json call for tid and the cache of tid is the k items and the new
\* one; otherwise it makes exactly one insert_rows_json call for tid, with the
\* k items and the new one in order, and the cache of tid is empty afterwards.
\* The call makes an insert_rows_json call for another table only if the cache of
\* that table had reached BIGQUERY_ITEM_BATCH before the call.
C2_FlushAtThreshold ==
    (last.op = "process_item" /\ last.result = "ok") =>
        LET tid == last.table_id
            before == CacheItems(last.cache0, tid)
            inserts == CallsFor(LastCalls, "insert_rows_json", tid)
        IN  /\ IF Len(before) + 1 < Threshold
               THEN /\ inserts = <<>>
                    /\ CacheItems(item_cache, tid) = Append(before, LastRow)
               ELSE /\ Len(inserts) = 1
                    /\ inserts[1].rows = Append(before, LastRow)
                    /\ CacheItems(item_cache, tid) = <<>>
            /\ \A i \in 1..Len(LastCalls) :
                   LastCalls[i].call = "insert_rows_json" /\ LastCalls[i].table_id # tid
                       => Len(CacheItems(last.cache0, LastCalls[i].table_id)) >= Threshold

\* With BIGQUERY_ITEM_BATCH above 1, the call that brings a table's cache from
\* empty up to it has just sent them all in the only insert_rows_json call so far.
C2_Witness ==
    /\ last.op = "process_item"
    /\ last.result = "ok"
    /\ Threshold >= 2
    /\ Len(CallsOf(log, "insert_rows_json")) = 1
    /\ Len(CallsOf(LastCalls, "insert_rows_json")) = 1
    /\ Len(CallsOf(LastCalls, "insert_rows_json")[1].rows) = Threshold
    /\ CacheItems(item_cache, last.table_id) = <<>>

-----------------------------------------------------------------------------
(* C3 *)

\* C3: a close_spider call makes at most one insert_rows_json call for a table
\* and none for a table whose cache is empty; when it returns, it has made
\* exactly one for every table whose cache held items, with all of them,
\* whatever BIGQUERY_ITEM_BATCH is, and every table's cache is empty.
C3_CloseFlushesAll ==
    last.op = "close_spider" =>
        /\ \A tid \in TableIds :
               /\ Len(CallsFor(LastCalls, "insert_rows_json", tid)) <= 1
               /\ CacheItems(last.cache0, tid) = <<>>
                      => CallsFor(LastCalls, "insert_rows_json", tid) = <<>>
        /\ last.result = "ok" =>
               \A tid \in TableIds :
                   /\ CacheItems(last.cache0, tid) # <<>> =>
                          /\ Len(CallsFor(LastCalls, "insert_rows_json", tid)) = 1
                          /\ CallsFor(LastCalls, "insert_rows_json", tid)[1].rows
                                 = CacheItems(last.cache0, tid)
                   /\ CacheItems(item_cache, tid) = <<>>

\* close_spider returned after it flushed two tables, each with fewer items than
\* BIGQUERY_ITEM_BATCH.
C3_Witness ==
    /\ last.op = "close_spider"
    /\ last.result = "ok"
    /\ Len(CallsOf(LastCalls, "insert_rows_json")) = 2
    /\ \A i \in 1..Len(last.cache0) :
           /\ last.cache0[i].items # <<>>
           /\ Len(last.cache0[i].items) < Threshold

-----------------------------------------------------------------------------
(* C4 *)

Raised(c) == c.outcome \in {"error", "Conflict"}

\* C4: an insert_rows_json call that returns row errors does not end the call of
\* process_item or close_spider that made it with an error (the call goes on,
\* and returns unless a later client call raises), the cache of its table is
\* empty when that call is over, and no later insert_rows_json call has one of
\* its rows.
C4_RowErrorsAreFinal ==
    /\ \A i \in 1..Len(LastCalls) :
           (LastCalls[i].call = "insert_rows_json" /\ LastCalls[i].outcome = "row_errors") =>
               /\ (\A j \in i..Len(LastCalls) : ~Raised(LastCalls[j])) => last.result = "ok"
               /\ CacheItems(item_cache, LastCalls[i].table_id) = <<>>
    /\ \A i, j \in 1..Len(log) :
           (/\ i < j
            /\ log[i].call = "insert_rows_json"
            /\ log[i].outcome = "row_errors"
            /\ log[j].call = "insert_rows_json") =>
               Ids(log[i].rows) \cap Ids(log[j].rows) = {}

\* A call returned although an insert_rows_json call of it returned row errors,
\* and the table it was for has had a later insert_rows_json call.
C4_Witness ==
    /\ last.result = "ok"
    /\ \E i, j \in 1..Len(log) :
           /\ i < j
           /\ log[i].call = "insert_rows_json"
           /\ log[i].outcome = "row_errors"
           /\ log[j].call = "insert_rows_json"
           /\ log[j].table_id = log[i].table_id
    /\ \E i \in 1..Len(LastCalls) : LastCalls[i].outcome = "row_errors"

-----------------------------------------------------------------------------
(* C5 *)

\* C5: a process_item call made after close_spider fails as PipelineClosed,
\* makes no call to the client and leaves tables_created and the item cache as
\* they were.
C5_ClosedPipelineRejects ==
    (last.op = "process_item" /\ last.closed) =>
        /\ last.result = "PipelineClosed"
        /\ LastCalls = <<>>
        /\ tables_created = last.created0
        /\ item_cache = last.cache0

-----------------------------------------------------------------------------
(* C6 *)

RoutingKeys == {bigquery_dataset_key, bigquery_table_key}

\* The rows of the item cache and of the insert_rows_json calls so far
CachedRows == UNION {{item_cache[i].items[j] : j \in 1..Len(item_cache[i].items)} :
                        i \in 1..Len(item_cache)}

InsertedRows == UNION {{log[i].rows[j] : j \in 1..Len(log[i].rows)} : i \in 1..Len(log)}

\* C6: neither BIGQUERY_DATASET nor BIGQUERY_TABLE is a key of an item in the
\* item cache, of an item passed to insert_rows_json or of the item
\* process_item returns.
C6_NoRoutingKeyStored ==
    /\ \A row \in CachedRows \cup InsertedRows : DOMAIN row.item \cap RoutingKeys = {}
    /\ last.ret.k = "dict" => DOMAIN last.ret.v \cap RoutingKeys = {}

\* An item that had both keys was passed to insert_rows_json and returned, under
\* a spider that sets both defaults.
C6_Witness ==
    /\ last.op = "process_item"
    /\ last.result = "ok"
    /\ RoutingKeys \subseteq DOMAIN last.item.v
    /\ RoutingKeys \subseteq DOMAIN spider.settings
    /\ LastRow \in InsertedRows
    /\ DOMAIN last.ret.v # {}

-----------------------------------------------------------------------------
(* C7 *)

\* The new row is in the item cache or was passed to insert_rows_json
LastRowStored == \E row \in CachedRows \cup InsertedRows : row.id = ncalls

\* C7: when create_table raises Conflict, process_item does not fail with it,
\* the table id is in tables_created and the item is in the cache (or flushed).
C7_ConflictIsSuccess ==
    (/\ last.op = "process_item"
     /\ \E i \in 1..Len(LastCalls) :
            LastCalls[i].call = "create_table" /\ LastCalls[i].outcome = "Conflict") =>
        /\ last.result # "Conflict"
        /\ last.table_id \in tables_created
        /\ LastRowStored

-----------------------------------------------------------------------------
(* C8 *)

\* The item's value for key when the item has the key, else the setting
Resolved(item, key) == IF key \in DOMAIN item THEN item[key] ELSE spider.settings[key]

\* C8: the table id of an item is made of the dataset and the table, each the
\* item's own value when the item has the key and the setting otherwise; the
\* item is appended to the cache of that table id, of which there is one, and to
\* no other; and what an insert_rows_json call for a table id carries is what
\* the cache of that table id held.
C8_RoutedToResolvedTable ==
    /\ \A i, j \in 1..Len(item_cache) :
           item_cache[i].table_id = item_cache[j].table_id => i = j
    /\ last.op = "process_item" =>
           LET tid == last.table_id
               new == IF LastRowStored THEN <<CHOOSE row \in CachedRows \cup InsertedRows :
                                                 row.id = ncalls>>
                      ELSE <<>>
           IN  /\ tid = project_id \o "." \o Resolved(last.item.v, bigquery_dataset_key).v
                                   \o "." \o Resolved(last.item.v, bigquery_table_key).v
               /\ last.result = "ok" => LastRowStored
               /\ \A other \in TableIds \ {tid} :
                      /\ CacheItems(item_cache, other) \in {CacheItems(last.cache0, other), <<>>}
                      /\ \A i \in 1..Len(LastCalls) :
                             (LastCalls[i].call = "insert_rows_json"
                              /\ LastCalls[i].table_id = other) =>
                                 LastCalls[i].rows = CacheItems(last.cache0, other)
               /\ CacheItems(item_cache, tid) \in {CacheItems(last.cache0, tid) \o new, <<>>}
               /\ \A i \in 1..Len(LastCalls) :
                      (LastCalls[i].call = "insert_rows_json" /\ LastCalls[i].table_id = tid) =>
                          LastCalls[i].rows = CacheItems(last.cache0, tid) \o new
    /\ last.op = "close_spider" =>
           \A i \in 1..Len(LastCalls) :
               LastCalls[i].rows = CacheItems(last.cache0, LastCalls[i].table_id)

\* An item routed by its own table and the default dataset joined, in the cache
\* of p.d.t, an item that was there, and both were sent to p.d.t in one call.
C8_Witness ==
    /\ last.op = "process_item"
    /\ last.result = "ok"
    /\ DOMAIN last.item.v \cap RoutingKeys = {bigquery_table_key}
    /\ last.table_id = "p.d.t"
    /\ CacheItems(last.cache0, "p.d.t") # <<>>
    /\ \E i \in 1..Len(LastCalls) :
           /\ LastCalls[i].call = "insert_rows_json"
           /\ LastCalls[i].table_id = "p.d.t"
           /\ Len(LastCalls[i].rows) >= 2
    /\ "p.e.t" \in CacheKeys(item_cache)

-----------------------------------------------------------------------------
(* C9 *)

\* Neither the item nor the settings have the key
Unrouted(item, key) == key \notin DOMAIN item /\ key \notin DOMAIN spider.settings

\* C9: process_item of an item for which BIGQUERY_DATASET or BIGQUERY_TABLE is
\* in neither the item nor the settings fails (the KeyError of the settings
\* lookup), makes no call to the client and caches nothing.
C9_MissingRoutingFails ==
    (/\ last.op = "process_item"
     /\ \E key \in RoutingKeys : Unrouted(last.item.v, key)) =>
        /\ last.result = "KeyError"
        /\ LastCalls = <<>>
        /\ tables_created = last.created0
        /\ item_cache = last.cache0

-----------------------------------------------------------------------------
(* C10 *)

\* The names of the fields table_id stamps onto an item under the spider
Stamps ==
    {name \in {"BIGQUERY_ADD_SCRAPED_TIME", "BIGQUERY_ADD_SCRAPER_NAME",
               "BIGQUERY_ADD_SCRAPER_SESSION"} :
        name \in DOMAIN spider.settings /\ spider.settings[name] = Bool(TRUE)}

StampKeys ==
    {CASE name = "BIGQUERY_ADD_SCRAPED_TIME" -> "scraped_time"
       [] name = "BIGQUERY_ADD_SCRAPER_NAME" -> "scraper"
       [] OTHER -> "scraper_session_id" : name \in Stamps}

\* The keys of the item once table_id is done with it
RoutedKeys(item) == ((DOMAIN item) \ RoutingKeys) \cup StampKeys

\* The rows made of the item of the last process_item call
LastRows ==
    {row \in CachedRows \cup InsertedRows : row.id = ncalls}
    \cup (IF last.ret.k = "dict" THEN {LastRow} ELSE {})

\* The value of a field of the item is kept: as it is, or as the text of a date
ValueKept(value, stored) ==
    CASE value.k \in {"int", "str", "list", "None"} -> stored = value
      [] value.k = "date" -> stored = Str(strftime(value))
      [] value.k = "datetime" -> stored = Str(str_datetime(value))
      [] OTHER -> stored.k = value.k

\* The keys of a stored row are those of the routed item that are in fields,
\* and a field of the item that is kept has the item's value.
ProjectedTo(fields) ==
    \A row \in LastRows :
        /\ DOMAIN row.item = RoutedKeys(last.item.v) \cap fields
        /\ \A key \in (DOMAIN row.item) \ StampKeys :
               ValueKept(last.item.v[key], row.item[key])

FieldsToSaveSetting == settings_get(spider, "BIGQUERY_FIELDS_TO_SAVE", NoneV)

\* C10 as stated: when BIGQUERY_FIELDS_TO_SAVE is set to a collection of names,
\* the keys of the stored item are exactly the keys of the routed item that are
\* in it, with the item's values.
C10_ProjectedWhenConfigured ==
    (last.op = "process_item" /\ FieldsToSaveSetting.k = "set") =>
        ProjectedTo(FieldsToSaveSetting.v)

\* C10 as amended: the same, when BIGQUERY_FIELDS_TO_SAVE is set to a collection
\* of names that is not empty; with an empty one the item is stored with all the
\* keys of the routed item.
C10_ProjectedWhenNotEmpty ==
    (last.op = "process_item" /\ FieldsToSaveSetting.k = "set") =>
        IF FieldsToSaveSetting.v # {}
        THEN ProjectedTo(FieldsToSaveSetting.v)
        ELSE ProjectedTo(RoutedKeys(last.item.v))

\* An item was stored without a field it had and with one, stamped and not in
\* the item, that is to be saved.
C10_Witness ==
    /\ last.op = "process_item"
    /\ last.result = "ok"
    /\ FieldsToSaveSetting.k = "set"
    /\ \E key \in DOMAIN last.item.v : key \notin RoutingKeys /\ key \notin DOMAIN last.ret.v
    /\ \E key \in DOMAIN last.ret.v : key \in DOMAIN last.item.v
    /\ \E key \in DOMAIN last.ret.v : key \in StampKeys /\ key \notin DOMAIN last.item.v

-----------------------------------------------------------------------------
(* C11 *)

\* What a value is to be stored as: a date as its text, a dict with its values
\* so stored, any other value as it is
RECURSIVE Normalized(_)
Normalized(value) ==
    CASE value.k = "date" -> Str(strftime(value))
      [] value.k = "dict" -> Dict([key \in DOMAIN value.v |-> Normalized(value.v[key])])
      [] OTHER -> value

ExampleItem ==
    Setting(bigquery_dataset_key, Str("d")) @@ Setting(bigquery_table_key, Str("t"))
    @@ Setting("ts", Date(2024, 1, 5)) @@ Setting("n", Num(3))

\* C11: a field of the item is stored with every date in it, at any depth of
\* dicts, as its YYYY-MM-DD text and every other value in it as it was: a
\* datetime inside a dict and the elements of a list among them (a datetime that
\* is itself a field of the item is stored as str() of it, by table_id).  The
\* item {dataset d, table t, ts: 2024-01-05, n: 3} is stored as
\* {n: 3, ts: "2024-01-05"} for table p.d.t.
C11_DatesNormalizedOnly ==
    last.op = "process_item" =>
        /\ \A row \in LastRows :
               \A key \in (DOMAIN row.item) \ StampKeys :
                   row.item[key] =
                       IF last.item.v[key].k = "datetime"
                       THEN Str(str_datetime(last.item.v[key]))
                       ELSE Normalized(last.item.v[key])
        /\ (last.item = Dict(ExampleItem) /\ StampKeys = {} /\ FieldsToSaveSetting.k = "None") =>
               /\ last.table_id = "p.d.t"
               /\ \A row \in LastRows :
                      row.item = Setting("n", Num(3)) @@ Setting("ts", Str("2024-01-05"))

-----------------------------------------------------------------------------
(* C12 *)

Provisioning == {"get_table", "deduce_schema", "create_table"}

\* C12: a table id in tables_created stays in it, and no call makes a
\* get_table or a create_table call (nor deduces a schema) for a table id that
\* was in tables_created before the call: for a table id in tables_created the
\* last of these calls in the log is the one that found or created the table.
C12_RegistryOnlyGrows ==
    /\ last.created0 \subseteq tables_created
    /\ \A i \in 1..Len(LastCalls) :
           LastCalls[i].call \in Provisioning => LastCalls[i].table_id \notin last.created0
    /\ \A tid \in tables_created :
           \E i \in 1..Len(log) :
               /\ log[i].table_id = tid
               /\ \/ log[i].call = "get_table" /\ log[i].outcome = "found"
                  \/ log[i].call = "create_table" /\ log[i].outcome = "ok"
               /\ \A j \in (i + 1)..Len(log) :
                      log[j].table_id = tid => log[j].call \notin Provisioning

\* An item was processed for a table id that was in tables_created, one of
\* two, without a get_table call.
C12_Witness ==
    /\ last.op = "process_item"
    /\ last.result = "ok"
    /\ last.table_id \in last.created0
    /\ Cardinality(tables_created) = 2
    /\ LastCalls # <<>>
    /\ \A i \in 1..Len(LastCalls) : LastCalls[i].call = "insert_rows_json"

-----------------------------------------------------------------------------
(* C13 *)

\* C13: a create_table call is made only by process_item, for the table id of
\* its item, right after a get_table call of the same process_item call for
\* that id raised NotFound and the schema was deduced; once get_table has found
\* a table, its id is in tables_created and no schema is deduced and no
\* create_table call made for it.
C13_CreateOnlyAfterNotFound ==
    /\ \A i \in 1..Len(LastCalls) :
           LastCalls[i].call = "create_table" =>
               /\ last.op = "process_item"
               /\ LastCalls[i].table_id = last.table_id
               /\ i = 3
               /\ LastCalls[1] = Call("get_table", last.table_id, <<>>, "NotFound")
               /\ LastCalls[2] = Call("deduce_schema", last.table_id, <<>>, "ok")
    /\ \A i \in 1..Len(log) :
           (log[i].call = "get_table" /\ log[i].outcome = "found") =>
               /\ log[i].table_id \in tables_created
               /\ \A j \in (i + 1)..Len(log) :
                      log[j].table_id = log[i].table_id => log[j].call \notin Provisioning

\* get_table found one table and did not find another, which was created, and
\* an item was then processed for the one that was found.
C13_Witness ==
    /\ \E i, j \in 1..Len(log) :
           /\ log[i].call = "get_table" /\ log[i].outcome = "found"
           /\ log[j].call = "create_table" /\ log[j].outcome = "ok"
           /\ log[i].table_id # log[j].table_id
           /\ last.op = "process_item"
           /\ last.table_id = log[i].table_id
           /\ last.start >= i
    /\ Cardinality(tables_created) = 2

-----------------------------------------------------------------------------
(* C14 *)

\* C14: when create_table raises an error other than Conflict, process_item
\* fails with it and leaves tables_created and the item cache as they were.
C14_CreateErrorPropagates ==
    (/\ last.op = "process_item"
     /\ \E i \in 1..Len(LastCalls) :
            LastCalls[i].call = "create_table" /\ LastCalls[i].outcome = "error") =>
        /\ last.result = "error"
        /\ last.ret = NoneV
        /\ tables_created = last.created0
        /\ item_cache = last.cache0

\* create_table raised for the item of the last call while another table was
\* in tables_created and had an item in its cache.
C14_Witness ==
    /\ last.op = "process_item"
    /\ last.result = "error"
    /\ \E i \in 1..Len(LastCalls) :
           LastCalls[i].call = "create_table" /\ LastCalls[i].outcome = "error"
    /\ last.created0 # {}
    /\ CachedRows # {}

-----------------------------------------------------------------------------
(* C15 *)

\* C15: a process_item call makes at most one insert_rows_json call, and none
\* for a table other than the one of its item.
C15_FlushesOwnTableOnly ==
    last.op = "process_item" =>
        /\ Len(CallsOf(LastCalls, "insert_rows_json")) <= 1
        /\ \A i \in 1..Len(LastCalls) :
               LastCalls[i].call = "insert_rows_json" => LastCalls[i].table_id = last.table_id

-----------------------------------------------------------------------------
(* C16 *)

\* C16: once a call has made an insert_rows_json call for a table, whatever its
\* outcome, the cache of the table is empty, and no item is passed to
\* insert_rows_json twice.
C16_NoRetryBuffer ==
    /\ \A i \in 1..Len(LastCalls) :
           LastCalls[i].call = "insert_rows_json" =>
               CacheItems(item_cache, LastCalls[i].table_id) = <<>>
    /\ \A i, j \in 1..Len(log) :
           (i < j /\ log[i].call = "insert_rows_json" /\ log[j].call = "insert_rows_json") =>
               Ids(log[i].rows) \cap Ids(log[j].rows) = {}

-----------------------------------------------------------------------------
(* C17 *)

\* C17: when a process_item call (or a close_spider call) has returned, the
\* cache of every table holds fewer items than BIGQUERY_ITEM_BATCH.
C17_BelowThresholdBetweenCalls ==
    last.result = "ok" =>
        \A i \in 1..Len(item_cache) : Len(item_cache[i].items) < Threshold

\* process_item returned with an item left in a cache, one short of
\* BIGQUERY_ITEM_BATCH, after it flushed a cache that had reached it.
C17_Witness ==
    /\ last.op = "process_item"
    /\ last.result = "ok"
    /\ \E i \in 1..Len(last.cache0) : Len(last.cache0[i].items) >= Threshold
    /\ \E i \in 1..Len(item_cache) :
           /\ item_cache[i].items # <<>>
           /\ Len(item_cache[i].items) = Threshold - 1

-----------------------------------------------------------------------------
(* C18 *)

\* C18: no insert_rows_json call is made with no rows.
C18_NoEmptyInsert ==
    \A i \in 1..Len(log) : log[i].call = "insert_rows_json" => log[i].rows # <<>>

\* close_spider flushed one table and passed over another, whose cache a flush
\* at BIGQUERY_ITEM_BATCH had emptied.
C18_Witness ==
    /\ last.op = "close_spider"
    /\ last.result = "ok"
    /\ \E i \in 1..Len(last.cache0) : last.cache0[i].items = <<>>
    /\ \E i \in 1..Len(last.cache0) : last.cache0[i].items # <<>>
    /\ Len(CallsOf(LastCalls, "insert_rows_json")) = 1
    /\ Len(CallsOf(log, "insert_rows_json")) >= 2

-----------------------------------------------------------------------------
(* C19 *)

\* A call that adds its table id to tables_created when it returns
Adds(c) ==
    \/ c.call = "get_table" /\ c.outcome = "found"
    \/ c.call = "create_table" /\ c.outcome = "ok"

\* C19: every table with items in the cache is in tables_created, and every
\* insert_rows_json call is for a table in tables_created that an earlier
\* get_table call found or an earlier create_table call created.
C19_ProvisionedBeforeUse ==
    /\ \A i \in 1..Len(item_cache) :
           item_cache[i].items # <<>> => item_cache[i].table_id \in tables_created
    /\ \A j \in 1..Len(log) :
           log[j].call = "insert_rows_json" =>
               /\ log[j].table_id \in tables_created
               /\ \E i \in 1..(j - 1) : Adds(log[i]) /\ log[i].table_id = log[j].table_id

\* Two tables are in tables_created: the items of one have been inserted by an
\* earlier call, an item of the other is in the cache.
C19_Witness ==
    /\ last.op = "process_item"
    /\ last.result = "ok"
    /\ Cardinality(tables_created) = 2
    /\ CacheItems(item_cache, last.table_id) # <<>>
    /\ \E j \in 1..Len(log) :
           log[j].call = "insert_rows_json" /\ log[j].table_id # last.table_id

-----------------------------------------------------------------------------
(* C20 *)

\* The rows of a sequence of calls, one after the other
RECURSIVE RowsOf(_)
RowsOf(calls) ==
    IF calls = <<>> THEN <<>> ELSE Head(calls).rows \o RowsOf(Tail(calls))

\* The rows process_item has returned for a table, in order
RECURSIVE ReturnedFor(_, _)
ReturnedFor(rets, tid) ==
    IF rets = <<>>
    THEN <<>>
    ELSE (IF Head(rets).table_id = tid THEN <<Head(rets).row>> ELSE <<>>)
         \o ReturnedFor(Tail(rets), tid)

NoCallRaised == \A i \in 1..Len(log) : ~Raised(log[i])

\* C20: when no call to the client has raised, each insert_rows_json call has
\* all the items the cache of its table held, and once close_spider has returned
\* the rows of the insert_rows_json calls for a table, in the order of the
\* calls, are the items process_item returned for the table, in their order.
C20_AllRowsOnceInOrder ==
    NoCallRaised =>
        /\ \A i \in 1..Len(LastCalls) :
               LastCalls[i].call = "insert_rows_json" =>
                   LastCalls[i].rows =
                       CacheItems(last.cache0, LastCalls[i].table_id)
                       \o (IF last.op = "process_item" /\ LastCalls[i].table_id = last.table_id
                           THEN <<LastRow>>
                           ELSE <<>>)
        /\ last.op = "close_spider" =>
               \A tid \in TableIds :
                   RowsOf(CallsFor(log, "insert_rows_json", tid)) = ReturnedFor(returned, tid)

\* close_spider has returned after it inserted the two items of a table in one
\* call, and no call has raised.
C20_Witness ==
    /\ last.op = "close_spider"
    /\ last.result = "ok"
    /\ NoCallRaised
    /\ Len(returned) = 2
    /\ Len(LastCalls) = 1
    /\ Len(LastCalls[1].rows) = 2

====
